---- MODULE Spec2Model ----
(***************************************************************************)
(* A model of claude-usage (src/src/main.rs): one run of the command line  *)
(* tool, from argument parsing to process exit, and its display functions. *)
(*                                                                         *)
(* Conventions                                                             *)
(*   - a utilization (f64 percent) is an integer number of tenths of a     *)
(*     percent: 899 is 89.9%, 1000 is 100.0%;                              *)
(*   - an Option<T> is None or Some(v);                                    *)
(*   - an instant is a whole number of seconds; a duration's num_seconds() *)
(*     is the difference of two instants;                                  *)
(*   - a text is a sequence of lines, a line a sequence of fragments, the  *)
(*     blank line being << >>;                                             *)
(*   - stdout and stderr are the sequences of writes issued, in program    *)
(*     order.                                                              *)
(***************************************************************************)
EXTENDS Integers, Sequences, FiniteSets, TLC

VARIABLES
    args,       \* std::env::args(): program name, then the arguments
    pc,         \* position of main/run
    plain,      \* run's local `plain`
    keychainReads, \* times the `security` command was run
    token,      \* result of get_token_from_keychain
    requests,   \* HTTP requests sent, in order
    response,   \* what the network answered to the request
    usage,      \* result of fetch_usage
    stdout,     \* writes to standard output
    stderr,     \* writes to standard error
    exitCode,   \* process exit status, None while running
    call        \* a single call of a display function (SpecFmt)

vars == <<args, pc, plain, keychainReads, token, requests, response, usage, stdout, stderr,
          exitCode, call>>

-----------------------------------------------------------------------------
(* Bounds *)

MaxArgs == 1          \* command-line arguments after the program name
MaxWidth == 30        \* bar widths 0..MaxWidth given to print_window
UMargin == 60         \* utilizations from -UMargin to 1000 + UMargin tenths
MaxMinutes == 2900    \* reset instants up to MaxMinutes minutes ahead

-----------------------------------------------------------------------------
(* Option, Result *)

None == [some |-> FALSE]
Some(v) == [some |-> TRUE, val |-> v]

Ok(v) == [ok |-> TRUE, val |-> v]
Err(msg) == [ok |-> FALSE, msg |-> msg]

NotRun == [ok |-> FALSE, msg |-> << >>]

Min(a, b) == IF a <= b THEN a ELSE b
Max(a, b) == IF a >= b THEN a ELSE b

\* Integer division of Rust (toward zero), for b > 0.
TruncDiv(a, b) == IF a >= 0 THEN a \div b ELSE -((-a) \div b)

\* f64::round of num/den, den > 0: nearest integer, halves away from zero.
Round(num, den) ==
    IF num >= 0 THEN (2 * num + den) \div (2 * den)
    ELSE -((2 * (-num) + den) \div (2 * den))

\* `x as usize` of a rounded f64: the cast saturates, negatives give 0.
AsUsize(x) == IF x < 0 THEN 0 ELSE x

Repeat(glyph, n) == [i \in 1..n |-> glyph]

-----------------------------------------------------------------------------
(* Program constants *)

BarWidth == 28
ClearWidth == 50
RuleWidth == 65
\* Columns of "  <diamond> Fetching usage data... "
FetchingWidth == 27

-----------------------------------------------------------------------------
(* Inputs of a run *)

ProgName == "claude-usage"
ArgPool == {"--plain", "-p", "--verbose"}

RECURSIVE SeqsUpTo(_, _)
SeqsUpTo(S, n) ==
    IF n = 0 THEN {<< >>}
    ELSE LET shorter == SeqsUpTo(S, n - 1)
         IN  shorter \cup {Append(s, x) : s \in {t \in shorter : Len(t) = n - 1}, x \in S}

ArgVectors == {<<ProgName>> \o rest : rest \in SeqsUpTo(ArgPool, MaxArgs)}

\* A timestamp string: ISO 8601 text of an instant, or text that does not parse.
Iso(secs) == [iso |-> TRUE, secs |-> secs]
Text(t) == [iso |-> FALSE, text |-> t]

\* The instants Utc::now() reads during a run, and the viewer's UTC offsets.
NowSamples == {200000}
TzSamples == {0, 36000}

UsageWindow(u, r) == [utilization |-> u, resets_at |-> r]

MainUtil == {-50, 0, 699, 700, 899, 900, 1500}
MainResets == {None, Some(Iso(205400))}
MainWindows == {None} \cup {Some(UsageWindow(u, r)) : u \in MainUtil, r \in MainResets}

OpusUtil == {-50, 0, 950}
OpusWindows == {None} \cup {Some(UsageWindow(u, r)) : u \in OpusUtil, r \in MainResets}

UsageResponses ==
    {[five_hour |-> a, seven_day |-> b, seven_day_opus |-> c] :
        a \in MainWindows, b \in MainWindows, c \in OpusWindows}

-----------------------------------------------------------------------------
(* Keychain credential reading *)

OAuthToken(t, sub) == [access_token |-> t, subscription_type |-> sub]

Tokens == {OAuthToken("sk-ant-oat", sub) : sub \in {None, Some("max")}}

\* What running `security find-generic-password ... -w` can give: whether the
\* command could be run, its exit status, its error stream, whether its output
\* is UTF-8 and, when the output is JSON of the expected shape, the
\* claudeAiOauth object in it.
KeychainOutcomes ==
    [spawned : BOOLEAN, success : BOOLEAN,
     stderr : {"", "security: The specified item could not be found in the keychain."},
     utf8 : BOOLEAN,
     creds : {None} \cup {Some(t) : t \in Tokens}]

get_token_from_keychain(output) ==
    IF ~output.spawned
    THEN Err(<< <<"Failed to run 'security' command - are you on macOS?">> >>)
    ELSE IF ~output.success
    THEN Err(<< <<"Could not read Claude Code credentials from Keychain.">>,
                <<"Make sure Claude Code is installed and you've logged in.">>,
                <<"Error: ", output.stderr>> >>)
    ELSE IF ~output.utf8
    THEN Err(<< <<"Keychain output was not valid UTF-8">> >>)
    ELSE IF ~output.creds.some
    THEN Err(<< <<"Could not parse Claude Code credentials from Keychain">> >>)
    ELSE Ok(output.creds.val)

-----------------------------------------------------------------------------
(* API call *)

Statuses == {200, 201, 401, 403, 500}

Bodies ==
    {[text |-> "<html>", parsed |-> None]}
        \cup {[text |-> "json", parsed |-> Some(u)] : u \in UsageResponses}

\* What the network can answer to the one request: the send fails, or a
\* response with a status and a body arrives.
SendFailure == [sent |-> FALSE, status |-> 0, body |-> [text |-> "", parsed |-> None]]
NetOutcomes == {SendFailure} \cup [sent : {TRUE}, status : Statuses, body : Bodies]

Request(tok) ==
    [method |-> "GET",
     url |-> "https://api.anthropic.com/api/oauth/usage",
     authorization |-> <<"Bearer ", tok>>,
     user_agent |-> "claude-code/2.0.32",
     anthropic_beta |-> "oauth-2025-04-20",
     accept |-> "application/json"]

is_success(status) == status >= 200 /\ status <= 299

ReauthMessage ==
    << <<"Token expired or invalid - try logging out and back in with Claude Code:">>,
       <<"  claude logout && claude">> >>

fetch_usage_status_first(resp) ==
    IF ~resp.sent
    THEN Err(<< <<"Failed to reach Anthropic API">> >>)
    ELSE IF ~is_success(resp.status)
    THEN Err(<< <<"API returned ", ToString(resp.status), ": ", resp.body.text>> >>)
    ELSE IF resp.status = 401
    THEN Err(ReauthMessage)
    ELSE IF ~resp.body.parsed.some
    THEN Err(<< <<"Failed to parse usage response">> >>)
    ELSE Ok(resp.body.parsed.val)

fetch_usage(resp) ==
    IF ~resp.sent
    THEN Err(<< <<"Failed to reach Anthropic API">> >>)
    ELSE IF resp.status = 401
    THEN Err(ReauthMessage)
    ELSE IF ~is_success(resp.status)
    THEN Err(<< <<"API returned ", ToString(resp.status), ": ", resp.body.text>> >>)
    ELSE IF ~resp.body.parsed.some
    THEN Err(<< <<"Failed to parse usage response">> >>)
    ELSE Ok(resp.body.parsed.val)

-----------------------------------------------------------------------------
(* Display *)

\* Styles of colored are named "red_bold", "yellow", "green", "dimmed", ...

usage_bar_trunc(pct, width) ==
    LET filled0 == AsUsize(TruncDiv(pct * width, 1000))
        filled == Min(filled0, width)
        empty == width - filled
        bar == Repeat("full", filled) \o Repeat("empty", empty)
    IN  IF pct >= 900 THEN [glyphs |-> bar, style |-> "red_bold"]
        ELSE IF pct >= 700 THEN [glyphs |-> bar, style |-> "yellow"]
        ELSE [glyphs |-> bar, style |-> "green"]

usage_bar_strict(pct, width) ==
    LET filled0 == AsUsize(Round(pct * width, 1000))
        filled == Min(filled0, width)
        empty == width - filled
        bar == Repeat("full", filled) \o Repeat("empty", empty)
    IN  IF pct > 900 THEN [glyphs |-> bar, style |-> "red_bold"]
        ELSE IF pct > 700 THEN [glyphs |-> bar, style |-> "yellow"]
        ELSE [glyphs |-> bar, style |-> "green"]

usage_bar(pct, width) ==
    LET filled0 == AsUsize(Round(pct * width, 1000))
        filled == Min(filled0, width)
        empty == width - filled
        bar == Repeat("full", filled) \o Repeat("empty", empty)
    IN  IF pct >= 900 THEN [glyphs |-> bar, style |-> "red_bold"]
        ELSE IF pct >= 700 THEN [glyphs |-> bar, style |-> "yellow"]
        ELSE [glyphs |-> bar, style |-> "green"]

\* The relative forms: "now", "in {}m", "in {}h {}m", "in {}d".
Now == [form |-> "now", n |-> 0, m |-> 0]
InM(mins) == [form |-> "in_m", n |-> mins, m |-> 0]
InHM(hours, mins) == [form |-> "in_h_m", n |-> hours, m |-> mins]
InD(days) == [form |-> "in_d", n |-> days, m |-> 0]

\* ts.parse::<DateTime<Utc>>()
ParseDateTime(ts) == IF ts.iso THEN Ok(ts.secs) ELSE Err(<< >>)

\* local.format("%H:%M") for an instant and the viewer's UTC offset
LocalHHMM(secs, tz) ==
    LET t == (secs + tz) % 86400
    IN  <<t \div 3600, (t % 3600) \div 60>>

format_reset_total_minutes(resets_at, now, tz) ==
    IF ~resets_at.some
    THEN [kind |-> "dash"]
    ELSE LET ts == resets_at.val
             dt == ParseDateTime(ts)
         IN  IF ~dt.ok
             THEN [kind |-> "raw", text |-> ts]
             ELSE LET diff == dt.val - now
                      mins == TruncDiv(diff, 60)
                      hours == TruncDiv(diff, 3600)
                      relative ==
                          IF diff <= 0 THEN Now
                          ELSE IF mins < 60 THEN InM(mins)
                          ELSE IF hours < 24 THEN InHM(hours, mins)
                          ELSE InD(TruncDiv(diff, 86400))
                  IN  [kind |-> "time",
                       clock |-> LocalHHMM(dt.val, tz),
                       relative |-> relative]

format_reset(resets_at, now, tz) ==
    IF ~resets_at.some
    THEN [kind |-> "dash"]
    ELSE LET ts == resets_at.val
             dt == ParseDateTime(ts)
         IN  IF ~dt.ok
             THEN [kind |-> "raw", text |-> ts]
             ELSE LET diff == dt.val - now
                      mins == TruncDiv(diff, 60)
                      hours == TruncDiv(diff, 3600)
                      relative ==
                          IF diff <= 0 THEN Now
                          ELSE IF mins < 60 THEN InM(mins)
                          ELSE IF hours < 24 THEN InHM(hours, mins - hours * 60)
                          ELSE InD(TruncDiv(diff, 86400))
                  IN  [kind |-> "time",
                       clock |-> LocalHHMM(dt.val, tz),
                       relative |-> relative]

\* The line print_window writes.
print_window(label, window, bar_width, now, tz) ==
    IF ~window.some
    THEN [kind |-> "not_available", label |-> label]
    ELSE LET w == window.val
             pct == Min(w.utilization, 1000)
             bar == usage_bar(pct, bar_width)
             pct_str ==
                 IF pct >= 900 THEN [text |-> pct, style |-> "red_bold"]
                 ELSE IF pct >= 700 THEN [text |-> pct, style |-> "yellow"]
                 ELSE [text |-> pct, style |-> "green"]
         IN  [kind |-> "window", label |-> label, bar |-> bar,
              pct_str |-> pct_str,
              resets |-> format_reset(w.resets_at, now, tz)]

\* The line print_plain writes.
print_plain(label, window) ==
    IF ~window.some
    THEN [kind |-> "plain_na", label |-> label]
    ELSE LET w == window.val
             pct == Min(w.utilization, 1000)
             resets == IF w.resets_at.some
                       THEN [kind |-> "raw", text |-> w.resets_at.val]
                       ELSE [kind |-> "dash"]
         IN  [kind |-> "plain", label |-> label, pct |-> pct, resets |-> resets]

-----------------------------------------------------------------------------
(* Writes of main and run *)

\* println!()
BlankLine == [kind |-> "blank", nl |-> TRUE]

\* print!("  {} Fetching usage data... ", ...): no newline ends it
Fetching == [kind |-> "fetching", nl |-> FALSE, cols |-> FetchingWidth]

ClearLineShort == [kind |-> "clear", nl |-> FALSE, cols |-> FetchingWidth - 7]
\* print!("\r{}\r", " ".repeat(50))
ClearLine == [kind |-> "clear", nl |-> FALSE, cols |-> ClearWidth]

to_uppercase(str) ==
    CASE str = "max" -> "MAX"
      [] str = "unknown" -> "UNKNOWN"
      [] OTHER -> str

Header(tok) ==
    LET plan == to_uppercase(IF tok.subscription_type.some
                             THEN tok.subscription_type.val ELSE "unknown")
    IN  [kind |-> "header", nl |-> TRUE, plan |-> plan]

Rule == [kind |-> "rule", nl |-> TRUE, cols |-> RuleWidth]

opus_row_unconditional(u, now, tz) ==
    <<print_window("7-day (Opus)", u.seven_day_opus, BarWidth, now, tz)>>

\* The Opus row: only when it has data.
opus_row(u, now, tz) ==
    IF u.seven_day_opus.some
    THEN LET opus == u.seven_day_opus.val
         IN  IF opus.utilization > 0 \/ opus.resets_at.some
             THEN <<print_window("7-day (Opus)", u.seven_day_opus, BarWidth, now, tz)>>
             ELSE << >>
    ELSE << >>

highest_utilization_all(u) ==
    LET acc0 == 0
        acc1 == IF u.five_hour.some THEN Max(acc0, u.five_hour.val.utilization) ELSE acc0
        acc2 == IF u.seven_day.some THEN Max(acc1, u.seven_day.val.utilization) ELSE acc1
        acc3 == IF u.seven_day_opus.some
                THEN Max(acc2, u.seven_day_opus.val.utilization) ELSE acc2
    IN  acc3

\* [five_hour, seven_day] filter_map utilization, fold(0.0, f64::max)
highest_utilization(u) ==
    LET acc0 == 0
        acc1 == IF u.five_hour.some THEN Max(acc0, u.five_hour.val.utilization) ELSE acc0
        acc2 == IF u.seven_day.some THEN Max(acc1, u.seven_day.val.utilization) ELSE acc1
    IN  acc2

summary_hint(u) ==
    LET highest == highest_utilization(u)
    IN  IF highest >= 900 THEN [kind |-> "hint", nl |-> TRUE, hint |-> "nearly_at_limit"]
        ELSE IF highest >= 700 THEN [kind |-> "hint", nl |-> TRUE, hint |-> "elevated"]
        ELSE [kind |-> "hint", nl |-> TRUE, hint |-> "looking_good"]

\* What run writes to standard output once the usage has been fetched.
report(isPlain, tok, u, now, tz) ==
    IF isPlain
    THEN <<print_plain("5hr session", u.five_hour),
           print_plain("7 day rolling", u.seven_day)>>
    ELSE <<ClearLine, Header(tok), Rule,
           print_window("5-hour session", u.five_hour, BarWidth, now, tz),
           print_window("7-day rolling", u.seven_day, BarWidth, now, tz)>>
         \o opus_row(u, now, tz)
         \o <<Rule, summary_hint(u), BlankLine>>

\* eprintln!("\n  {} {}\n", "Error:", e): one write, the text of lines
\* "", "  Error: " + first line of e, the other lines of e, "".
error_write(msg) ==
    [kind |-> "error",
     lines |-> << << >> >> \o << <<"  ", "Error:", " ">> \o Head(msg) >>
                   \o Tail(msg) \o << << >> >>]

\* The `?` after get_token_from_keychain() and after fetch_usage(): an Err
\* leaves run at once.
after_token_swallow(result) == IF result.ok THEN "fetch" ELSE "main_ok"
after_usage_retry(result) == IF result.ok THEN "render" ELSE "fetch"
after_token(result) == IF result.ok THEN "fetch" ELSE "main_err"
after_usage(result) == IF result.ok THEN "render" ELSE "main_err"

is_plain_long_only(argv) == \E i \in 1..Len(argv) : argv[i] = "--plain"
\* any(|a| a == "--plain" || a == "-p")
is_plain(argv) == \E i \in 1..Len(argv) : argv[i] = "--plain" \/ argv[i] = "-p"

\* The indicator run prints first, in colorized mode.
preamble(isPlain) == IF ~isPlain THEN <<BlankLine, Fetching>> ELSE << >>

-----------------------------------------------------------------------------
(* One run of the program *)

NoCall == [fn |-> "none"]

Init ==
    /\ args \in ArgVectors
    /\ pc = "start"
    /\ plain = FALSE
    /\ keychainReads = 0
    /\ token = NotRun
    /\ requests = << >>
    /\ response = None
    /\ usage = NotRun
    /\ stdout = << >>
    /\ stderr = << >>
    /\ exitCode = None
    /\ call = NoCall

Start ==
    /\ pc = "start"
    /\ plain' = is_plain(args)
    /\ stdout' = stdout \o preamble(plain')
    /\ pc' = "keychain"
    /\ UNCHANGED <<args, keychainReads, token, requests, response, usage, stderr, exitCode, call>>

GetToken ==
    /\ pc = "keychain"
    /\ \E output \in KeychainOutcomes :
          /\ token' = get_token_from_keychain(output)
          /\ pc' = after_token(token')
    /\ keychainReads' = keychainReads + 1
    /\ UNCHANGED <<args, plain, requests, response, usage, stdout, stderr, exitCode, call>>

FetchUsage ==
    /\ pc = "fetch"
    /\ \E resp \in NetOutcomes :
          /\ requests' = Append(requests, Request(token.val.access_token))
          /\ response' = Some(resp)
          /\ usage' = fetch_usage(resp)
          /\ pc' = after_usage(usage')
    /\ UNCHANGED <<args, plain, keychainReads, token, stdout, stderr, exitCode, call>>

Render ==
    /\ pc = "render"
    /\ \E now \in NowSamples, tz \in TzSamples :
          stdout' = stdout \o report(plain, token.val, usage.val, now, tz)
    /\ pc' = "main_ok"
    /\ UNCHANGED <<args, plain, keychainReads, token, requests, response, usage, stderr, exitCode, call>>

\* main, run() returned Err(e)
MainErr ==
    /\ pc = "main_err"
    /\ stderr' = Append(stderr, error_write(IF ~token.ok THEN token.msg ELSE usage.msg))
    /\ exitCode' = Some(1)
    /\ pc' = "exited"
    /\ UNCHANGED <<args, plain, keychainReads, token, requests, response, usage, stdout, call>>

\* main, run() returned Ok(())
MainOk ==
    /\ pc = "main_ok"
    /\ exitCode' = Some(0)
    /\ pc' = "exited"
    /\ UNCHANGED <<args, plain, keychainReads, token, requests, response, usage, stdout, stderr, call>>

Next == Start \/ GetToken \/ FetchUsage \/ Render \/ MainErr \/ MainOk

Spec == Init /\ [][Next]_vars

-----------------------------------------------------------------------------
(* The display functions on their own *)

FmtUtil == (0 - UMargin)..(1000 + UMargin)
FmtWidths == 0..MaxWidth
FmtDiffs == {m * 60 + sec : m \in (0 - 2)..MaxMinutes, sec \in {0, 1, 59}}
FmtInstants == {now + d : now \in NowSamples, d \in FmtDiffs}
FmtResets ==
    {None, Some(Text("soon")), Some(Text(""))} \cup {Some(Iso(t)) : t \in FmtInstants}

InitFmt ==
    /\ args = <<ProgName>>
    /\ pc = "start"
    /\ plain = FALSE
    /\ keychainReads = 0
    /\ token = NotRun
    /\ requests = << >>
    /\ response = None
    /\ usage = NotRun
    /\ stdout = << >>
    /\ stderr = << >>
    /\ exitCode = None
    /\ call = NoCall

CallPrintWindow ==
    /\ call = NoCall
    /\ \E window \in {None} \cup {Some(UsageWindow(u, None)) : u \in FmtUtil},
          width \in FmtWidths, now \in NowSamples :
          call' = [fn |-> "print_window", window |-> window, width |-> width,
                   result |-> print_window("5-hour session", window, width, now, 0)]
    /\ UNCHANGED <<args, pc, plain, keychainReads, token, requests, response, usage, stdout,
                   stderr, exitCode>>

CallFormatReset ==
    /\ call = NoCall
    /\ \E resets_at \in FmtResets, now \in NowSamples, tz \in TzSamples :
          call' = [fn |-> "format_reset", resets_at |-> resets_at, now |-> now,
                   tz |-> tz, result |-> format_reset(resets_at, now, tz)]
    /\ UNCHANGED <<args, pc, plain, keychainReads, token, requests, response, usage, stdout,
                   stderr, exitCode>>

NextFmt == CallPrintWindow \/ CallFormatReset

SpecFmt == InitFmt /\ [][NextFmt]_vars

-----------------------------------------------------------------------------
(* Vocabulary of the properties *)

Finished == pc = "exited"
Rendered == pc \in {"main_ok", "exited"} /\ usage.ok
RunFailed == ~token.ok \/ ~usage.ok

ReportKinds == {"header", "rule", "window", "not_available", "plain", "plain_na", "hint"}
Indices(out, kinds) == {i \in 1..Len(out) : out[i].kind \in kinds}
HasReport(out) == Indices(out, ReportKinds) # {}

NonBlankLines(text) == {i \in 1..Len(text) : text[i] # << >>}
ErrorLineCount == IF stderr = << >> THEN 0 ELSE Cardinality(NonBlankLines(stderr[1].lines))

-----------------------------------------------------------------------------
(* C1 *)

\* C1, as stated: a run in which the credential read or the fetch failed ends
\* with exactly one line of error text on standard error, no usage report on
\* standard output and exit code 1; a run in which both succeeded ends with
\* exit code 0 and nothing on standard error.
C1_OneErrorLine ==
    Finished =>
        IF RunFailed
        THEN /\ Len(stderr) = 1
             /\ ErrorLineCount = 1
             /\ ~HasReport(stdout)
             /\ exitCode = Some(1)
        ELSE /\ exitCode = Some(0)
             /\ stderr = << >>

\* C1, amended: a failed run ends with exactly one error message on standard
\* error, written at once: a blank line, the message of the failed step behind
\* the "Error:" prefix, on one or more lines, and a blank line; it has no usage
\* report on standard output and exit code 1. A run in which both steps
\* succeeded ends with exit code 0 and nothing on standard error.
C1_OneErrorMessage ==
    Finished =>
        IF RunFailed
        THEN /\ Len(stderr) = 1
             /\ stderr[1].kind = "error"
             /\ LET text == stderr[1].lines
                    msg == IF ~token.ok THEN token.msg ELSE usage.msg
                IN  /\ Len(text) = Len(msg) + 2
                    /\ text[1] = << >>
                    /\ text[Len(text)] = << >>
                    /\ SubSeq(text[2], 1, 3) = <<"  ", "Error:", " ">>
                    /\ SubSeq(text[2], 4, Len(text[2])) = msg[1]
                    /\ \A i \in 2..Len(msg) : text[i + 1] = msg[i]
                    /\ ErrorLineCount >= 1
             /\ ~HasReport(stdout)
             /\ exitCode = Some(1)
        ELSE /\ exitCode = Some(0)
             /\ stderr = << >>

\* A run that ended on a 401 answer: its error message has two lines of text.
C1_Witness ==
    /\ Finished
    /\ token.ok
    /\ usage = Err(ReauthMessage)
    /\ exitCode = Some(1)
    /\ ErrorLineCount = 2

-----------------------------------------------------------------------------
(* C2 *)

\* C2: the credential is read at most once and the request sent at most once;
\* a request is sent only after the credential read succeeded, with the token
\* read, and never when it failed; report output is there only after the
\* fetch succeeded; nothing is done again.
C2_StepOrder ==
    /\ keychainReads <= 1
    /\ Len(requests) <= 1
    /\ (requests # << >> =>
            /\ keychainReads = 1
            /\ token.ok
            /\ requests[1] = Request(token.val.access_token))
    /\ (keychainReads = 1 /\ ~token.ok => requests = << >>)
    /\ (HasReport(stdout) => Len(requests) = 1 /\ usage.ok)
    /\ (requests = << >> => ~usage.ok /\ ~response.some)
    /\ (Finished /\ ~RunFailed => HasReport(stdout))

\* A finished run that read the credential, sent its one request and rendered.
C2_Witness ==
    /\ Finished
    /\ keychainReads = 1
    /\ Len(requests) = 1
    /\ usage.ok
    /\ HasReport(stdout)

-----------------------------------------------------------------------------
(* C3 *)

IndicatorPrinted == Len(stdout) >= 2 /\ stdout[1] = BlankLine /\ stdout[2] = Fetching

\* The write after the indicator, on the same terminal line, blanks at least
\* the indicator's columns, and the report's header follows.
IndicatorOverwritten ==
    /\ Len(stdout) >= 4
    /\ stdout[3].kind = "clear"
    /\ stdout[3].cols >= stdout[2].cols
    /\ stdout[4].kind = "header"

\* C3, as stated: in colorized mode the indicator is printed before the
\* network call, is overwritten by the report when the fetch succeeds, and is
\* cleared before the error is printed when a step fails.
C3_IndicatorAlwaysRemoved ==
    (~plain /\ pc # "start") =>
        /\ (requests # << >> => IndicatorPrinted)
        /\ (Rendered => IndicatorOverwritten)
        /\ (stderr # << >> => Indices(stdout, {"clear"}) # {})

\* C3, amended: in colorized mode the indicator is printed before the
\* credential read and the network call; when the fetch succeeds it is
\* overwritten by the report (the line is blanked, then the header is
\* written); when the credential read or the fetch fails it is not cleared:
\* standard output holds the blank line and the indicator only, and the error
\* message begins with a line break.
C3_IndicatorOverwrittenOnSuccess ==
    (~plain /\ pc # "start") =>
        /\ IndicatorPrinted
        /\ (keychainReads = 0 => stdout = <<BlankLine, Fetching>>)
        /\ (requests # << >> => IndicatorPrinted)
        /\ (Rendered => IndicatorOverwritten)
        /\ (stderr # << >> =>
                /\ stdout = <<BlankLine, Fetching>>
                /\ stderr[1].lines[1] = << >>)

\* A colorized run that rendered its report over the indicator.
C3_Witness ==
    /\ ~plain
    /\ Finished
    /\ usage.ok
    /\ IndicatorOverwritten

-----------------------------------------------------------------------------
(* C4 *)

Range(seq) == {seq[i] : i \in 1..Len(seq)}

\* The plain line of a window, as the specification words it.
PlainLineOf(label, window) ==
    IF window.some
    THEN [kind |-> "plain", label |-> label,
          pct |-> IF window.val.utilization > 1000 THEN 1000
                  ELSE window.val.utilization,
          resets |-> IF window.val.resets_at.some
                     THEN [kind |-> "raw", text |-> window.val.resets_at.val]
                     ELSE [kind |-> "dash"]]
    ELSE [kind |-> "plain_na", label |-> label]

-----------------------------------------------------------------------------
(* C5 *)

\* C5: the result of fetch_usage is decided by the answer to the one request:
\* send failure, network error; 401, the reauthentication message; another
\* status outside 200..299, the API error with the status and the body; a
\* status in 200..299 with a body that does not parse, the decode error; a
\* status in 200..299 with a body that parses, the usage in it.
C5_FetchOutcome ==
    response.some =>
        LET r == response.val
            good == r.status \in 200..299
        IN  /\ (~r.sent => usage = Err(<< <<"Failed to reach Anthropic API">> >>))
            /\ (r.sent /\ r.status = 401 =>
                    /\ ~usage.ok
                    /\ Len(usage.msg) = 2
                    /\ usage.msg[2] = <<"  claude logout && claude">>
                    /\ usage.msg[1][1] # "API returned ")
            /\ (r.sent /\ ~good /\ r.status # 401 =>
                    usage = Err(<< <<"API returned ", ToString(r.status), ": ",
                                     r.body.text>> >>))
            /\ (r.sent /\ good /\ ~r.body.parsed.some =>
                    usage = Err(<< <<"Failed to parse usage response">> >>))
            /\ (r.sent /\ good /\ r.body.parsed.some => usage = Ok(r.body.parsed.val))

\* The request was answered 401 and the fetch failed.
C5_Witness ==
    /\ response.some
    /\ response.val.sent
    /\ response.val.status = 401
    /\ ~usage.ok

-----------------------------------------------------------------------------
(* C8 *)

SetMax(S) == CHOOSE x \in S : \A y \in S : y <= x

HintFor(u) ==
    LET present == {w.val.utilization : w \in {x \in {u.five_hour, u.seven_day} : x.some}}
        maximum == IF present = {} THEN 0 ELSE SetMax(present)
    IN  IF maximum >= 900 THEN "nearly_at_limit"
        ELSE IF maximum >= 700 /\ maximum < 900 THEN "elevated"
        ELSE "looking_good"

RowKinds == {"window", "not_available"}

\* C8: a rendered colorized run has exactly one hint, after all window rows,
\* chosen by the maximum utilization of the 5-hour and 7-day windows that are
\* present (0 when neither is): >= 90 the warning, >= 70 the pacing hint,
\* else the reassurance; the Opus window has no part in it.
C8_SummaryHint ==
    (~plain /\ Rendered) =>
        LET hints == Indices(stdout, {"hint"})
        IN  /\ Cardinality(hints) = 1
            /\ \A h \in hints :
                  /\ stdout[h].hint = HintFor(usage.val)
                  /\ \A r \in Indices(stdout, RowKinds) : r < h

\* A rendered run whose Opus window is at 95% while the others are below 70%.
C8_Witness ==
    /\ ~plain
    /\ Rendered
    /\ usage.val.seven_day_opus.some
    /\ usage.val.seven_day_opus.val.utilization >= 900
    /\ usage.val.five_hour.some
    /\ usage.val.five_hour.val.utilization = 699
    /\ ~usage.val.seven_day.some
    /\ \E h \in Indices(stdout, {"hint"}) : stdout[h].hint = "looking_good"

-----------------------------------------------------------------------------
(* C9 *)

RowsLabelled(label) ==
    {i \in Indices(stdout, RowKinds) : stdout[i].label = label}

\* C9: in a rendered colorized run the Opus row is there exactly when the
\* Opus window is present with utilization > 0 or a reset time, and is then a
\* window row; the 5-hour and 7-day rows are always there, in this order, a
\* window row for a present window and the "not available" row for an absent
\* one.
C9_OpusRow ==
    (~plain /\ Rendered) =>
        LET u == usage.val
            opus == RowsLabelled("7-day (Opus)")
            shown == /\ u.seven_day_opus.some
                     /\ \/ u.seven_day_opus.val.utilization > 0
                        \/ u.seven_day_opus.val.resets_at.some
        IN  /\ (opus # {} <=> shown)
            /\ Cardinality(opus) <= 1
            /\ \A i \in opus : stdout[i].kind = "window"
            /\ Cardinality(RowsLabelled("5-hour session")) = 1
            /\ Cardinality(RowsLabelled("7-day rolling")) = 1
            /\ \A i \in RowsLabelled("5-hour session") :
                  /\ (stdout[i].kind = "not_available" <=> ~u.five_hour.some)
                  /\ \A j \in RowsLabelled("7-day rolling") :
                        /\ i < j
                        /\ (stdout[j].kind = "not_available" <=> ~u.seven_day.some)
                        /\ \A k \in opus : j < k

\* A rendered run with an Opus window at 0% without reset time, and no
\* 5-hour window.
C9_Witness ==
    /\ ~plain
    /\ Rendered
    /\ usage.val.seven_day_opus = Some(UsageWindow(0, None))
    /\ ~usage.val.five_hour.some
    /\ RowsLabelled("7-day (Opus)") = {}
    /\ \E i \in RowsLabelled("5-hour session") : stdout[i].kind = "not_available"

-----------------------------------------------------------------------------
(* C6 *)

WindowPrinted == call.fn = "print_window" /\ call.window.some

Count(seq, glyph) == Cardinality({i \in 1..Len(seq) : seq[i] = glyph})

\* C6: the bar print_window prints for a present window and a width w has
\* between 0 and w filled glyphs, then w minus that many empty ones, w glyphs
\* in all, whatever the utilization; for a utilization u in [0,100] the
\* filled count is the integer nearest to u/100*w, the upper one on a tie.
C6_BarLength ==
    WindowPrinted =>
        LET u == call.window.val.utilization
            w == call.width
            bar == call.result.bar.glyphs
            filled == Count(bar, "full")
            empty == Count(bar, "empty")
        IN  /\ filled \in 0..w
            /\ empty = w - filled
            /\ Len(bar) = w
            /\ \A i \in 1..Len(bar) : bar[i] = "full" <=> i <= filled
            /\ (u \in 0..1000 =>
                    /\ 1000 * filled - u * w > 0 - 500
                    /\ 1000 * filled - u * w <= 500)

\* A window at 12.5% printed 28 wide: 3.5 glyphs round to 4.
C6_Witness ==
    /\ WindowPrinted
    /\ call.window.val.utilization = 125
    /\ call.width = BarWidth
    /\ Count(call.result.bar.glyphs, "full") = 4

-----------------------------------------------------------------------------
(* C7 *)

\* C7: the bar and the percentage print_window prints for a present window
\* have the same style: critical for a utilization >= 90, elevated for one
\* >= 70 and < 90, normal for one < 70.
C7_Styles ==
    WindowPrinted =>
        LET u == call.window.val.utilization
            expected == CASE u >= 900 -> "red_bold"
                          [] u >= 700 /\ u < 900 -> "yellow"
                          [] u < 700 -> "green"
        IN  /\ call.result.bar.style = call.result.pct_str.style
            /\ call.result.bar.style = expected

\* A window at exactly 90.0% printed in the critical style.
C7_Witness ==
    /\ WindowPrinted
    /\ call.window.val.utilization = 900
    /\ call.result.bar.style = "red_bold"
    /\ call.result.pct_str.style = "red_bold"

-----------------------------------------------------------------------------
(* C10 *)

\* C10: format_reset gives the dash for no timestamp, the text itself for one
\* that does not parse and, for one d whole seconds ahead: "now" when d <= 0;
\* "in Nm", N the whole minutes of d, when 0 < d < 60 min; "in Nh Mm", N the
\* whole hours and M in 0..59 the minutes left, when 60 min <= d < 24 h;
\* "in Nd", N >= 1 the whole days, when d >= 24 h.
C10_RelativeForm ==
    call.fn = "format_reset" =>
        LET r == call.resets_at
            res == call.result
        IN  /\ (~r.some => res.kind = "dash")
            /\ (r.some /\ ~r.val.iso => res.kind = "raw" /\ res.text = r.val)
            /\ (r.some /\ r.val.iso =>
                  LET d == r.val.secs - call.now
                      rel == res.relative
                  IN  /\ res.kind = "time"
                      /\ rel.form \in {"now", "in_m", "in_h_m", "in_d"}
                      /\ (rel.form = "now" <=> d <= 0)
                      /\ (rel.form = "in_m" <=> d > 0 /\ d < 3600)
                      /\ (rel.form = "in_h_m" <=> d >= 3600 /\ d < 86400)
                      /\ (rel.form = "in_d" <=> d >= 86400)
                      /\ (rel.form = "in_m" =>
                              rel.n * 60 <= d /\ d < (rel.n + 1) * 60)
                      /\ (rel.form = "in_h_m" =>
                              /\ rel.m \in 0..59
                              /\ rel.n \in 1..23
                              /\ (rel.n * 60 + rel.m) * 60 <= d
                              /\ d < (rel.n * 60 + rel.m + 1) * 60)
                      /\ (rel.form = "in_d" =>
                              /\ rel.n >= 1
                              /\ rel.n * 86400 <= d
                              /\ d < (rel.n + 1) * 86400))

\* A timestamp 23 h 59 min 59 s ahead, rendered "in 23h 59m".
C10_Witness ==
    /\ call.fn = "format_reset"
    /\ call.resets_at.some
    /\ call.resets_at.val.iso
    /\ call.resets_at.val.secs - call.now = 86399
    /\ call.result.relative = InHM(23, 59)

====
